---- MODULE Spec2Model ----
(***************************************************************************)
(* Model of the DICOM viewer of src/app.py: series loading and volume      *)
(* assembly (load_dicom_series), plane extraction (extract_plane), the     *)
(* window/level transform (window_level_image, compute_default_window)     *)
(* and the event loop of main.                                             *)
(*                                                                         *)
(* Conventions.  numpy arrays are sequences of sequences; Python index i   *)
(* is position i+1.  Intensities are integers (every value of the model    *)
(* is exactly representable in float32).  Percentiles and the default      *)
(* window are fractions: default_ww is kept in units of 1/100 and          *)
(* default_wl in units of 1/200.  Slider values are floats: they are kept  *)
(* in units of 1/2 so that round() has something to round.                 *)
(***************************************************************************)
EXTENDS Integers, Sequences, FiniteSets, TLC

VARIABLES files, pc, volume, datasets, popup, defaults, widgets, shown, call, result

vars == <<files, pc, volume, datasets, popup, defaults, widgets, shown, call, result>>

\* ---------------------------------------------------------------- bounds
MaxDim == 2
MaxFiles == 2

\* ------------------------------------------------------- Python builtins
None == "None"
IndexError == "IndexError"
ValueError == "ValueError"
FileNotFoundError == "FileNotFoundError"
RuntimeError == "RuntimeError"

\* an optional DICOM tag: <<>> when absent, <<v>> when present
Absent == <<>>
Present(v) == <<v>>
Has(tag) == tag # <<>>

Max(a, b) == IF a >= b THEN a ELSE b
Min(a, b) == IF a <= b THEN a ELSE b

\* round(n / d) for d > 0: Python 3 rounds halves to the even neighbour
PyRound(n, d) ==
    LET q == n \div d
        r == n % d
    IN  IF 2 * r < d THEN q
        ELSE IF 2 * r > d THEN q + 1
        ELSE IF q % 2 = 0 THEN q ELSE q + 1

\* int(n / d) for d > 0: truncation towards zero
PyInt(n, d) == IF n >= 0 THEN n \div d ELSE -((-n) \div d)

clamp_no_lower(value, minimum, maximum) == Min(value, maximum)

clamp(value, minimum, maximum) == Max(Min(value, maximum), minimum)

\* ------------------------------------------------------------ numpy
\* a[i] for an axis of length n: negative indices count from the end,
\* anything else outside 0..n-1 raises IndexError (0 here)
NpIndex(n, i) ==
    IF i >= 0 /\ i < n THEN i + 1
    ELSE IF i < 0 /\ i >= -n THEN i + n + 1
    ELSE 0

Shape2(m) == <<Len(m), Len(m[1])>>

rot90_k2(m) ==
    [i \in 1..Len(m) |-> [j \in 1..Len(m[1]) |->
        m[Len(m) + 1 - i][Len(m[1]) + 1 - j]]]

\* np.rot90(m, k=1) = transpose(flip(m, axis=1))
rot90(m) ==
    [i \in 1..Len(m[1]) |-> [j \in 1..Len(m) |-> m[j][Len(m[1]) + 1 - i]]]

flipud_omitted(m) == m

flipud(m) == [i \in 1..Len(m) |-> m[Len(m) + 1 - i]]

\* ------------------------------------------------------- plane extractor
Returned(v) == [raised |-> None, value |-> v]
Raised(e) == [raised |-> e, value |-> <<>>]

extract_plane(vol, plane, index) ==
    LET z_dim == Len(vol)
        y_dim == Len(vol[1])
        x_dim == Len(vol[1][1])
    IN  CASE plane = "Axial" ->
               LET k == NpIndex(z_dim, clamp(index, 0, z_dim - 1))
               IN  IF k = 0 THEN Raised(IndexError) ELSE Returned(vol[k])
          [] plane = "Sagittal" ->
               LET k == NpIndex(x_dim, clamp(index, 0, x_dim - 1))
                   plane_img == [z \in 1..z_dim |-> [y \in 1..y_dim |-> vol[z][y][k]]]
               IN  IF k = 0 THEN Raised(IndexError)
                   ELSE Returned(flipud(rot90(plane_img)))
          [] plane = "Coronal" ->
               LET k == NpIndex(y_dim, clamp(index, 0, y_dim - 1))
                   plane_img == [z \in 1..z_dim |-> [x \in 1..x_dim |-> vol[z][k][x]]]
               IN  IF k = 0 THEN Raised(IndexError)
                   ELSE Returned(flipud(rot90(plane_img)))
          [] OTHER -> Raised(ValueError)

plane_limit_swapped(vol, plane) ==
    IF plane = "Sagittal" THEN Len(vol[1]) - 1 ELSE Len(vol[1][1]) - 1

plane_limit(vol, plane) ==
    IF plane = "Sagittal" THEN Len(vol[1][1]) - 1 ELSE Len(vol[1]) - 1

\* ---------------------------------------------------- window/level
window_level_image_nofloor(img, ww, wl) ==
    LET low2  == 2 * wl - ww
        high2 == 2 * wl + ww
    IN  IF high2 <= low2
        THEN [r \in 1..Len(img) |-> [c \in 1..Len(img[r]) |-> 0]]
        ELSE [r \in 1..Len(img) |-> [c \in 1..Len(img[r]) |->
                (((Max(Min(2 * img[r][c], high2), low2) - low2) * 255)
                    \div (high2 - low2)) % 256]]

\* ww, wl are integers; low2 and high2 are 2*low and 2*high
window_level_image(img, ww, wl) ==
    LET w     == Max(ww, 1)
        low2  == 2 * wl - w
        high2 == 2 * wl + w
    IN  IF high2 = low2
        THEN [r \in 1..Len(img) |-> [c \in 1..Len(img[r]) |-> 0]]
        ELSE [r \in 1..Len(img) |-> [c \in 1..Len(img[r]) |->
                (((Max(Min(2 * img[r][c], high2), low2) - low2) * 255)
                    \div (high2 - low2)) % 256]]

\* in-place effect of window_level_image on its argument if np.clip wrote
\* into it (out=img)
window_level_arg_clipped(img, ww, wl) ==
    LET w     == Max(ww, 1)
        low2  == 2 * wl - w
        high2 == 2 * wl + w
    IN  [r \in 1..Len(img) |-> [c \in 1..Len(img[r]) |->
            IF 2 * img[r][c] < low2 THEN low2 \div 2
            ELSE IF 2 * img[r][c] > high2 THEN (high2 + 1) \div 2
            ELSE img[r][c]]]

\* contents of the argument buffer after window_level_image returns:
\* np.clip allocates its result, img is only read
window_level_arg(img, ww, wl) == img

\* ------------------------------------------------------------ sorting
insert_before_equal(sorted, e) ==
    LET n == Len(sorted)
        p == Cardinality({i \in 1..n : sorted[i].key < e.key})
    IN  SubSeq(sorted, 1, p) \o <<e>> \o SubSeq(sorted, p + 1, n)

\* one step of the (binary) insertion sort behind list.sort: the element
\* goes after every element whose key is not greater (stable)
insert_sorted(sorted, e) ==
    LET n == Len(sorted)
        p == Cardinality({i \in 1..n : sorted[i].key <= e.key})
    IN  SubSeq(sorted, 1, p) \o <<e>> \o SubSeq(sorted, p + 1, n)

RECURSIVE list_sort(_)
list_sort(keyed) ==
    IF keyed = <<>> THEN <<>>
    ELSE insert_sorted(list_sort(SubSeq(keyed, 1, Len(keyed) - 1)), keyed[Len(keyed)])

\* ------------------------------------------------------ default window
ravel(vol) ==
    LET y_dim == Len(vol[1])
        x_dim == Len(vol[1][1])
    IN  [k \in 1..(Len(vol) * y_dim * x_dim) |->
            vol[((k - 1) \div (y_dim * x_dim)) + 1]
               [(((k - 1) \div x_dim) % y_dim) + 1]
               [((k - 1) % x_dim) + 1]]

\* 100 * np.percentile(vol, q): linear interpolation between ranked samples
percentile100(vol, q) ==
    LET flat == ravel(vol)
        keyed == [k \in 1..Len(flat) |-> [key |-> flat[k], val |-> flat[k]]]
        a == list_sort(keyed)
        pos == q * (Len(flat) - 1)
        i == pos \div 100
        g == pos % 100
    IN  IF g = 0 THEN 100 * a[i + 1].val
        ELSE 100 * a[i + 1].val + g * (a[i + 2].val - a[i + 1].val)

compute_default_window_nofloor(vol) ==
    LET low100  == percentile100(vol, 5)
        high100 == percentile100(vol, 95)
    IN  [ww100 |-> high100 - low100, wl200 |-> high100 + low100]

\* returns (ww, wl) as ww100 = 100 * ww and wl200 = 200 * wl
compute_default_window(vol) ==
    LET low100  == percentile100(vol, 5)
        high100 == percentile100(vol, 95)
    IN  [ww100 |-> Max(high100 - low100, 100), wl200 |-> high100 + low100]

\* ------------------------------------------------------ volume assembler
\* a file of the folder; ok is whether pydicom.dcmread succeeds
Unreadable ==
    [ok |-> FALSE, InstanceNumber |-> Absent, ImagePositionPatient |-> Absent,
     Rows |-> 0, Columns |-> 0, RescaleSlope |-> Absent,
     RescaleIntercept |-> Absent, pixel_array |-> <<>>]

sort_key(ds) ==
    IF Has(ds.InstanceNumber) THEN ds.InstanceNumber[1]
    ELSE IF Has(ds.ImagePositionPatient) THEN ds.ImagePositionPatient[1]
    ELSE 0

rescaled_slope_only(ds) ==
    IF Has(ds.RescaleSlope)
    THEN [r \in 1..ds.Rows |-> [c \in 1..ds.Columns |->
            ds.pixel_array[r][c] * ds.RescaleSlope[1]
              + (IF Has(ds.RescaleIntercept) THEN ds.RescaleIntercept[1] ELSE 0)]]
    ELSE ds.pixel_array

\* the pixel array after the optional rescale of the loop body
rescaled(ds) ==
    IF Has(ds.RescaleIntercept) /\ Has(ds.RescaleSlope)
    THEN [r \in 1..ds.Rows |-> [c \in 1..ds.Columns |->
            ds.pixel_array[r][c] * ds.RescaleSlope[1] + ds.RescaleIntercept[1]]]
    ELSE ds.pixel_array

\* volume[idx] = pixel_array: numpy broadcasts a source axis of length 1
\* and raises ValueError for any other shape difference
CanBroadcast(pa, rows, cols) ==
    /\ Len(pa) \in {1, rows}
    /\ Len(pa[1]) \in {1, cols}

setitem_slice(pa, rows, cols) ==
    [r \in 1..rows |-> [c \in 1..cols |->
        pa[IF Len(pa) = 1 THEN 1 ELSE r][IF Len(pa[1]) = 1 THEN 1 ELSE c]]]

sorted_datasets(fs) ==
    LET readable == SelectSeq(fs, LAMBDA f : f.ok)
        keyed == [k \in 1..Len(readable) |->
                    [key |-> sort_key(readable[k]), val |-> readable[k]]]
        sorted == list_sort(keyed)
    IN  [k \in 1..Len(sorted) |-> sorted[k].val]

load_dicom_series_abort_on_unreadable(fs) ==
    IF fs = <<>> THEN [raised |-> FileNotFoundError, volume |-> <<>>, datasets |-> <<>>]
    ELSE IF \E k \in 1..Len(fs) : ~fs[k].ok
    THEN [raised |-> RuntimeError, volume |-> <<>>, datasets |-> <<>>]
    ELSE
    LET ds == sorted_datasets(fs)
        rows == ds[1].Rows
        cols == ds[1].Columns
    IN  IF \E idx \in 1..Len(ds) : ~CanBroadcast(rescaled(ds[idx]), rows, cols)
        THEN [raised |-> ValueError, volume |-> <<>>, datasets |-> <<>>]
        ELSE [raised |-> None,
              volume |-> [idx \in 1..Len(ds) |->
                            setitem_slice(rescaled(ds[idx]), rows, cols)],
              datasets |-> ds]

load_dicom_series(fs) ==
    IF fs = <<>> THEN [raised |-> FileNotFoundError, volume |-> <<>>, datasets |-> <<>>]
    ELSE
    LET ds == sorted_datasets(fs)
    IN  IF ds = <<>>
        THEN [raised |-> RuntimeError, volume |-> <<>>, datasets |-> <<>>]
        ELSE
        LET rows == ds[1].Rows
            cols == ds[1].Columns
        IN  IF \E idx \in 1..Len(ds) : ~CanBroadcast(rescaled(ds[idx]), rows, cols)
            THEN [raised |-> ValueError, volume |-> <<>>, datasets |-> <<>>]
            ELSE [raised |-> None,
                  volume |-> [idx \in 1..Len(ds) |->
                                setitem_slice(rescaled(ds[idx]), rows, cols)],
                  datasets |-> ds]

\* ------------------------------------------------------------ session
PLANE_OPTIONS == <<"Sagittal", "Coronal">>

VolMin(vol) ==
    LET flat == ravel(vol)
    IN  CHOOSE v \in {flat[k] : k \in 1..Len(flat)} :
            \A k \in 1..Len(flat) : v <= flat[k]

VolMax(vol) ==
    LET flat == ravel(vol)
    IN  CHOOSE v \in {flat[k] : k \in 1..Len(flat)} :
            \A k \in 1..Len(flat) : v >= flat[k]

\* the locals of main computed between the load and the layout
main_defaults(vol) ==
    LET dw == compute_default_window(vol)
        default_ww100 == dw.ww100
        default_wl200 == dw.wl200
        ww_slider_max == Max(PyInt(5 * default_ww100, 100), 2000)
        wl_min == Min(VolMin(vol), -1200)
        wl_max == Max(VolMax(vol), 1600)
        default_plane == PLANE_OPTIONS[1]
    IN  [default_ww100 |-> default_ww100,
         default_wl200 |-> default_wl200,
         ww_slider_max |-> ww_slider_max,
         wl_min |-> wl_min,
         wl_max |-> wl_max,
         preset_map |->
            [PRESET_SOFT |-> [label |-> "Soft Tissue",
                              ww |-> PyRound(default_ww100, 100),
                              wl |-> PyRound(default_wl200, 200)],
             PRESET_BONE |-> [label |-> "Bone",
                              ww |-> IF 45 * default_ww100 >= 250 * 10000
                                     THEN PyRound(45 * default_ww100, 10000)
                                     ELSE 250,
                              wl |-> PyRound(50 * default_wl200 + 60 * default_ww100, 10000)],
             PRESET_LUNG |-> [label |-> "Lung", ww |-> 1500, wl |-> -600],
             PRESET_HEAD |-> [label |-> "Head", ww |-> 120, wl |-> 40]],
         default_plane |-> default_plane,
         reformat_default |-> plane_limit(vol, default_plane) \div 2]

\* the values of the widgets right after the layout is built; slider
\* values are floats, kept in halves
initial_widgets(vol, dflt) ==
    [PLANE |-> dflt.default_plane,
     AXIAL_SLICE |-> 2 * (Len(vol) \div 2),
     REFORM_SLICE |-> 2 * dflt.reformat_default,
     WW |-> 2 * PyRound(dflt.default_ww100, 100),
     WL |-> 2 * PyRound(dflt.default_wl200, 200)]

parse_values(vol, dflt, val_dict) ==
    LET plane == val_dict.PLANE
        reform_limit == plane_limit(vol, plane)
    IN  [plane |-> plane,
         axial_idx |-> clamp(PyRound(val_dict.AXIAL_SLICE, 2), 0, Len(vol) - 1),
         reform_idx |-> clamp(PyRound(val_dict.REFORM_SLICE, 2), 0, reform_limit),
         ww |-> clamp(PyRound(val_dict.WW, 2), 1, dflt.ww_slider_max),
         wl |-> clamp(PyRound(val_dict.WL, 2), dflt.wl_min, dflt.wl_max),
         reform_limit |-> reform_limit]

update_overlay_coords_full_extent(plane, reform_idx, reform_limit, shape) ==
    LET height == shape[1]
        width == shape[2]
    IN  IF reform_limit <= 0
        THEN IF plane = "Sagittal"
             THEN <<width \div 2, 0, width \div 2, height - 1, 255>>
             ELSE <<0, height \div 2, width - 1, height \div 2, 255>>
        ELSE IF plane = "Sagittal"
             THEN LET x == PyRound(reform_idx * width, reform_limit)
                  IN  <<x, 0, x, height - 1, 255>>
             ELSE LET y == PyRound(reform_idx * height, reform_limit)
                  IN  <<0, y, width - 1, y, 255>>

\* returns <<x1, y1, x2, y2, color>>
update_overlay_coords(plane, reform_idx, reform_limit, shape) ==
    LET height == shape[1]
        width == shape[2]
    IN  IF reform_limit <= 0
        THEN IF plane = "Sagittal"
             THEN <<width \div 2, 0, width \div 2, height - 1, 255>>
             ELSE <<0, height \div 2, width - 1, height \div 2, 255>>
        ELSE IF plane = "Sagittal"
             THEN LET x == PyRound(reform_idx * (width - 1), reform_limit)
                  IN  <<x, 0, x, height - 1, 255>>
             ELSE LET y == PyRound(reform_idx * (height - 1), reform_limit)
                  IN  <<0, y, width - 1, y, 255>>

update_reformat_slider(vol, plane, current_idx) ==
    clamp(current_idx, 0, plane_limit(vol, plane))

\* extract_plane returns a view of the volume: the volume as it reads
\* after the view's buffer holds img
view_store(vol, plane, index, img) ==
    CASE plane = "Axial" ->
           [vol EXCEPT ![NpIndex(Len(vol), index)] = img]
      [] plane = "Sagittal" ->
           LET plane_img == rot90(rot90(rot90(flipud(img))))
           IN  [z \in 1..Len(vol) |-> [y \in 1..Len(vol[1]) |->
                   [x \in 1..Len(vol[1][1]) |->
                       IF x = NpIndex(Len(vol[1][1]), index)
                       THEN plane_img[z][y] ELSE vol[z][y][x]]]]
      [] OTHER ->
           LET plane_img == rot90(rot90(rot90(flipud(img))))
           IN  [z \in 1..Len(vol) |-> [y \in 1..Len(vol[1]) |->
                   [x \in 1..Len(vol[1][1]) |->
                       IF y = NpIndex(Len(vol[1]), index)
                       THEN plane_img[z][x] ELSE vol[z][y][x]]]]

\* the widget values, the displayed state and the volume after
\* refresh_images(val_dict); the status text is not part of the model
refresh_images(vol, dflt, val_dict) ==
    LET pv == parse_values(vol, dflt, val_dict)
        reform_idx == update_reformat_slider(vol, pv.plane, pv.reform_idx)
        axial_slice == extract_plane(vol, "Axial", pv.axial_idx).value
        axial_img == window_level_image(axial_slice, pv.ww, pv.wl)
        vol1 == view_store(vol, "Axial", pv.axial_idx,
                           window_level_arg(axial_slice, pv.ww, pv.wl))
        reform_slice == extract_plane(vol1, pv.plane, reform_idx).value
        reform_img == window_level_image(reform_slice, pv.ww, pv.wl)
        vol2 == view_store(vol1, pv.plane, reform_idx,
                           window_level_arg(reform_slice, pv.ww, pv.wl))
        overlay == update_overlay_coords(pv.plane, reform_idx, pv.reform_limit,
                                         Shape2(axial_img))
    IN  [widgets |-> [val_dict EXCEPT !.REFORM_SLICE = 2 * reform_idx],
         shown |-> [plane |-> pv.plane,
                    axial_idx |-> pv.axial_idx,
                    reform_idx |-> reform_idx,
                    reform_limit |-> pv.reform_limit,
                    ww |-> pv.ww,
                    wl |-> pv.wl,
                    axial_img |-> axial_img,
                    reform_img |-> reform_img,
                    overlay |-> overlay],
         volume |-> vol2]

apply_preset(dflt, key, val_dict) ==
    [val_dict EXCEPT
        !.WW = 2 * clamp(dflt.preset_map[key].ww, 1, dflt.ww_slider_max),
        !.WL = 2 * clamp(dflt.preset_map[key].wl, dflt.wl_min, dflt.wl_max)]

reset_plane_state(dflt, val_dict) ==
    [val_dict EXCEPT !.PLANE = dflt.default_plane,
                     !.REFORM_SLICE = 2 * dflt.reformat_default]

\* ------------------------------------------------------- input domains
\* a readable file: its tags, and pixels that identify the file and the
\* position, pixel_array[r][c] = 100*i + 10*(r-1) + (c-1) for file i
MakeFile(i, kind) ==
    IF ~kind.ok THEN Unreadable
    ELSE [ok |-> TRUE,
          InstanceNumber |-> kind.InstanceNumber,
          ImagePositionPatient |-> kind.ImagePositionPatient,
          Rows |-> kind.Rows, Columns |-> kind.Columns,
          RescaleSlope |-> kind.RescaleSlope,
          RescaleIntercept |-> kind.RescaleIntercept,
          pixel_array |-> [r \in 1..kind.Rows |-> [c \in 1..kind.Columns |->
                              100 * i + 10 * (r - 1) + (c - 1)]]]

UnreadableKind ==
    [ok |-> FALSE, InstanceNumber |-> Absent, ImagePositionPatient |-> Absent,
     Rows |-> 0, Columns |-> 0, RescaleSlope |-> Absent, RescaleIntercept |-> Absent]

Kinds(keys, shapes, rescales) ==
    {UnreadableKind} \cup
    {[ok |-> TRUE, InstanceNumber |-> k[1], ImagePositionPatient |-> k[2],
      Rows |-> sh[1], Columns |-> sh[2],
      RescaleSlope |-> rs[1], RescaleIntercept |-> rs[2]] :
        k \in keys, sh \in shapes, rs \in rescales}

\* the folder holds files 1..n, file i of a kind t[i]
IsFolder(fs, kinds) ==
    \E n \in 0..MaxFiles : \E t \in [1..n -> kinds] :
        fs = [i \in 1..n |-> MakeFile(i, t[i])]

\* <<Rows, Columns>>
AllShapes == (1..MaxDim) \X (1..MaxDim)
SessionShapes == {<<1, MaxDim>>, <<MaxDim, 1>>, <<MaxDim, MaxDim>>}

\* <<InstanceNumber, ImagePositionPatient[2]>>: keys 2, 1, 1 and 0
KeyTags ==
    {<<Present(2), Absent>>, <<Present(1), Present(5)>>,
     <<Absent, Present(1)>>, <<Absent, Absent>>}

\* <<RescaleSlope, RescaleIntercept>>
RescaleTags ==
    {<<Absent, Absent>>, <<Present(2), Absent>>,
     <<Absent, Present(-1000)>>, <<Present(2), Present(-1000)>>}

\* the folders of the session model: one key, no rescale
SessionKeyTags == {<<Present(1), Absent>>}
SessionRescaleTags == {<<Absent, Absent>>}

\* raw slider values of the events, in halves: -1, 1.5, beyond the range;
\* 0.5 for the width and 40.5 for the level
AxialRaw == {-2, 3, 2 * MaxFiles + 2}
ReformRaw == {-2, 3, 2 * MaxDim + 2}
WWRaw == {1}
WLRaw == {81}

\* ------------------------------------------------------------- states
NoCall ==
    [fn |-> "none", plane |-> "", index |-> 0, img |-> <<>>, ww |-> 0, wl |-> 0,
     limit |-> 0, shape |-> <<>>]
NoDefaults == [default_plane |-> ""]
NoWidgets == [PLANE |-> "", AXIAL_SLICE |-> 0, REFORM_SLICE |-> 0, WW |-> 0, WL |-> 0]
NoShown ==
    [plane |-> "", axial_idx |-> 0, reform_idx |-> 0, reform_limit |-> 0,
     ww |-> 0, wl |-> 0, axial_img |-> <<>>, reform_img |-> <<>>,
     overlay |-> <<>>]

Init ==
    /\ IsFolder(files, Kinds(SessionKeyTags, SessionShapes, SessionRescaleTags))
    /\ pc = "start"
    /\ volume = <<>>
    /\ datasets = <<>>
    /\ popup = ""
    /\ defaults = NoDefaults
    /\ widgets = NoWidgets
    /\ shown = NoShown
    /\ call = NoCall
    /\ result = Returned(<<>>)

\* main, the try/except around load_dicom_series
LoadSeries ==
    /\ pc = "start"
    /\ LET loaded == load_dicom_series(files)
       IN  IF loaded.raised # None
           THEN /\ popup' = loaded.raised
                /\ pc' = "failed"
                /\ UNCHANGED <<volume, datasets>>
           ELSE /\ volume' = loaded.volume
                /\ datasets' = loaded.datasets
                /\ pc' = "loaded"
                /\ UNCHANGED popup
    /\ UNCHANGED <<files, defaults, widgets, shown, call, result>>

\* main from the defaults to the first refresh_images(init_values)
Startup ==
    /\ pc = "loaded"
    /\ LET dflt == main_defaults(volume)
           init_values == initial_widgets(volume, dflt)
           r == refresh_images(volume, dflt, init_values)
       IN  /\ defaults' = dflt
           /\ widgets' = r.widgets
           /\ shown' = r.shown
           /\ volume' = r.volume
    /\ pc' = "running"
    /\ UNCHANGED <<files, datasets, popup, call, result>>

\* the window is closed before the first read returns values
StartupClosed ==
    /\ pc = "loaded"
    /\ pc' = "closed"
    /\ UNCHANGED <<files, volume, datasets, popup, defaults, widgets, shown, call, result>>

\* a handler's call of refresh_images(values)
Refreshed(values) ==
    /\ \E r \in {refresh_images(volume, defaults, values)} :
          /\ widgets' = r.widgets
          /\ shown' = r.shown
          /\ volume' = r.volume
    /\ UNCHANGED <<files, pc, datasets, popup, defaults, call, result>>

\* leaving the loop: window.close() destroys the widgets
EvQuit ==
    /\ pc = "running"
    /\ pc' = "closed"
    /\ widgets' = NoWidgets
    /\ shown' = NoShown
    /\ UNCHANGED <<files, volume, datasets, popup, defaults, call, result>>

\* only the window geometry and the status text change
EvFullscreen ==
    /\ pc = "running"
    /\ UNCHANGED vars

EvResetPlane ==
    /\ pc = "running"
    /\ Refreshed(reset_plane_state(defaults, widgets))

EvResetWindow ==
    /\ pc = "running"
    /\ LET base_ww == PyRound(defaults.default_ww100, 100)
           base_wl == PyRound(defaults.default_wl200, 200)
           values == [widgets EXCEPT !.WW = 2 * base_ww, !.WL = 2 * base_wl]
       IN  Refreshed(values)

EvPreset ==
    /\ pc = "running"
    /\ \E key \in DOMAIN defaults.preset_map :
          Refreshed(apply_preset(defaults, key, widgets))

EvPlane ==
    /\ pc = "running"
    /\ \E p \in {PLANE_OPTIONS[1], PLANE_OPTIONS[2]} :
          Refreshed([widgets EXCEPT !.PLANE = p])

EvAxialSlice ==
    /\ pc = "running"
    /\ \E raw \in AxialRaw :
          Refreshed([widgets EXCEPT !.AXIAL_SLICE = raw])

EvReformSlice ==
    /\ pc = "running"
    /\ \E raw \in ReformRaw :
          Refreshed([widgets EXCEPT !.REFORM_SLICE = raw])

EvWW ==
    /\ pc = "running"
    /\ \E raw \in WWRaw :
          Refreshed([widgets EXCEPT !.WW = raw])

EvWL ==
    /\ pc = "running"
    /\ \E raw \in WLRaw :
          Refreshed([widgets EXCEPT !.WL = raw])

Next ==
    \/ LoadSeries
    \/ Startup
    \/ StartupClosed
    \/ EvQuit
    \/ EvFullscreen
    \/ EvResetPlane
    \/ EvResetWindow
    \/ EvPreset
    \/ EvPlane
    \/ EvAxialSlice
    \/ EvReformSlice
    \/ EvWW
    \/ EvWL

Spec == Init /\ [][Next]_vars

\* ---------------------------------------------- the assembler on its own
\* folders of records of every key and shape without rescale tags, and of
\* records of one key, every shape and every combination of rescale tags
InitLoad ==
    /\ IsFolder(files, Kinds(KeyTags, AllShapes, SessionRescaleTags)
                          \cup Kinds(SessionKeyTags, AllShapes, RescaleTags))
    /\ pc = "start"
    /\ volume = <<>>
    /\ datasets = <<>>
    /\ popup = ""
    /\ defaults = NoDefaults
    /\ widgets = NoWidgets
    /\ shown = NoShown
    /\ call = NoCall
    /\ result = Returned(<<>>)

NextLoad == LoadSeries

SpecLoad == InitLoad /\ [][NextLoad]_vars

\* ------------------------------------------- the pure functions on their own
\* volume[z, y, x] = z*100 + y*10 + x, and volumes of one intensity
GradientVolume(z_dim, y_dim, x_dim) ==
    [z \in 1..z_dim |-> [y \in 1..y_dim |-> [x \in 1..x_dim |->
        (z - 1) * 100 + (y - 1) * 10 + (x - 1)]]]

UniformVolume(z_dim, y_dim, x_dim, c) ==
    [z \in 1..z_dim |-> [y \in 1..y_dim |-> [x \in 1..x_dim |-> c]]]

PureVolumes ==
    {GradientVolume(z, y, x) : z \in 1..MaxDim, y \in 1..MaxDim, x \in 1..MaxDim}
    \cup {UniformVolume(z, y, x, c) :
            z \in 1..MaxDim, y \in 1..MaxDim, x \in 1..MaxDim, c \in {-1000, 7}}

PureIndices == (-(MaxDim + 3))..(MaxDim + 2)
PureIntensities == {-5, 0, 1, 50, 100, 150}
PureImages == {<<<<a, b>>>> : a \in PureIntensities, b \in PureIntensities}
PureWidths == {-3, 0, 1, 3, 100}
PureLevels == {-600, 0, 50}
OverlayIndices == (-1)..(MaxDim + 1)
OverlayLimits == (-1)..(MaxDim + 1)
OverlayDims == 1..(MaxDim + 2)

InitPure ==
    /\ volume \in PureVolumes
    /\ files = <<>>
    /\ pc = "idle"
    /\ datasets = <<>>
    /\ popup = ""
    /\ defaults = NoDefaults
    /\ widgets = NoWidgets
    /\ shown = NoShown
    /\ call = NoCall
    /\ result = Returned(<<>>)

PureFrame == UNCHANGED <<files, pc, volume, datasets, popup, defaults, widgets, shown>>

\* a caller applies one function to arguments of its choice ...
CallExtractPlane ==
    /\ call = NoCall
    /\ \E plane \in {"Axial", "Sagittal", "Coronal"}, index \in PureIndices :
          /\ call' = [NoCall EXCEPT !.fn = "extract_plane", !.plane = plane,
                                    !.index = index]
          /\ result' = extract_plane(volume, plane, index)
    /\ PureFrame

CallPlaneLimit ==
    /\ call = NoCall
    /\ \E plane \in {PLANE_OPTIONS[1], PLANE_OPTIONS[2]} :
          /\ call' = [NoCall EXCEPT !.fn = "plane_limit", !.plane = plane]
          /\ result' = Returned(plane_limit(volume, plane))
    /\ PureFrame

CallWindowLevel ==
    /\ call = NoCall
    /\ \E img \in PureImages, ww \in PureWidths, wl \in PureLevels :
          /\ call' = [NoCall EXCEPT !.fn = "window_level_image", !.img = img,
                                    !.ww = ww, !.wl = wl]
          /\ result' = Returned(window_level_image(img, ww, wl))
    /\ PureFrame

CallComputeDefaultWindow ==
    /\ call = NoCall
    /\ call' = [NoCall EXCEPT !.fn = "compute_default_window"]
    /\ result' = Returned(compute_default_window(volume))
    /\ PureFrame

CallOverlay ==
    /\ call = NoCall
    /\ \E plane \in {PLANE_OPTIONS[1], PLANE_OPTIONS[2]},
          reform_idx \in OverlayIndices, reform_limit \in OverlayLimits,
          height \in OverlayDims, width \in OverlayDims :
          /\ call' = [NoCall EXCEPT !.fn = "update_overlay_coords", !.plane = plane,
                                    !.index = reform_idx, !.limit = reform_limit,
                                    !.shape = <<height, width>>]
          /\ result' = Returned(update_overlay_coords(plane, reform_idx, reform_limit,
                                                      <<height, width>>))
    /\ PureFrame

\* ... and takes the result
Return ==
    /\ call # NoCall
    /\ call' = NoCall
    /\ result' = Returned(<<>>)
    /\ PureFrame

NextPure ==
    \/ Return
    \/ CallExtractPlane
    \/ CallPlaneLimit
    \/ CallWindowLevel
    \/ CallComputeDefaultWindow
    \/ CallOverlay

SpecPure == InitPure /\ [][NextPure]_vars

\* ================================================================ claims
Z_dim == Len(volume)
Y_dim == Len(volume[1])
X_dim == Len(volume[1][1])

ExtractLimit(plane) ==
    CASE plane = "Axial" -> Z_dim - 1
      [] plane = "Sagittal" -> X_dim - 1
      [] OTHER -> Y_dim - 1

ClampedIndex(index, limit) ==
    IF index < 0 THEN 0 ELSE IF index > limit THEN limit ELSE index

\* C1: extract_plane raises nothing for any integer index and returns what
\* it returns for the index clamped into [0, limit], limit being Z-1 for
\* Axial, X-1 for Sagittal and Y-1 for Coronal.
C1_ExtractClamps ==
    call.fn = "extract_plane" =>
        /\ result.raised = None
        /\ result = extract_plane(volume, call.plane,
                                  ClampedIndex(call.index, ExtractLimit(call.plane)))
        /\ call.index = -5 => result = extract_plane(volume, call.plane, 0)
        /\ call.index > ExtractLimit(call.plane) =>
              result = extract_plane(volume, call.plane, ExtractLimit(call.plane))

\* index -5 on an axis of at least two distinct cuts
C1_Witness ==
    /\ call.fn = "extract_plane"
    /\ call.index = -5
    /\ ExtractLimit(call.plane) >= 1
    /\ extract_plane(volume, call.plane, 0)
         # extract_plane(volume, call.plane, ExtractLimit(call.plane))
    /\ result.raised = None

ValidReformCall ==
    /\ call.fn = "extract_plane"
    /\ call.plane \in {"Sagittal", "Coronal"}
    /\ call.index \in 0..ExtractLimit(call.plane)

\* C2 as stated: the Sagittal cut has shape (Z, Y) and the Coronal cut
\* has shape (Z, X).
C2_ShapeAsStated ==
    ValidReformCall =>
        /\ result.raised = None
        /\ call.plane = "Sagittal" => Shape2(result.value) = <<Z_dim, Y_dim>>
        /\ call.plane = "Coronal" => Shape2(result.value) = <<Z_dim, X_dim>>

\* C2 (amended): the Sagittal cut has shape (Y, Z) and the Coronal cut has
\* shape (X, Z): Z columns in both cases.
C2_ShapeTransposed ==
    ValidReformCall =>
        /\ result.raised = None
        /\ call.plane = "Sagittal" => Shape2(result.value) = <<Y_dim, Z_dim>>
        /\ call.plane = "Coronal" => Shape2(result.value) = <<X_dim, Z_dim>>

\* a Sagittal cut of a volume with Z # Y
C2_Witness ==
    /\ ValidReformCall
    /\ call.plane = "Sagittal"
    /\ Z_dim # Y_dim
    /\ result.raised = None

\* C3: with the width floored at 1, low = level - width/2 and
\* high = level + width/2, window_level_image maps v <= low to 0,
\* v >= high to 255 and any v in between to the truncation of
\* (v - low) / (high - low) * 255; outputs lie in 0..255 and grow with v;
\* for width 100 and level 50: 0 -> 0, 100 -> 255, 50 -> 127 or 128,
\* v < 0 -> 0 and v > 100 -> 255.
C3_WindowLevel ==
    call.fn = "window_level_image" =>
        LET img == call.img
            out == result.value
            w == IF call.ww < 1 THEN 1 ELSE call.ww
            low2 == 2 * call.wl - w
            high2 == 2 * call.wl + w
            Cells == {<<r, c>> : r \in 1..Len(img), c \in 1..Len(img[1])}
        IN  /\ Shape2(out) = Shape2(img)
            /\ \A p \in Cells :
                 LET v == img[p[1]][p[2]]
                     o == out[p[1]][p[2]]
                 IN  /\ o \in 0..255
                     /\ 2 * v <= low2 => o = 0
                     /\ 2 * v >= high2 => o = 255
                     /\ (2 * v > low2 /\ 2 * v < high2) =>
                           /\ o * (high2 - low2) <= (2 * v - low2) * 255
                           /\ (2 * v - low2) * 255 < (o + 1) * (high2 - low2)
                     /\ (call.ww = 100 /\ call.wl = 50) =>
                           /\ v = 0 => o = 0
                           /\ v = 100 => o = 255
                           /\ v = 50 => o \in {127, 128}
                           /\ v < 0 => o = 0
                           /\ v > 100 => o = 255
            /\ \A p \in Cells, q \in Cells :
                 img[p[1]][p[2]] <= img[q[1]][q[2]] =>
                    out[p[1]][p[2]] <= out[q[1]][q[2]]

\* width 100, level 50 on the values 50 and 150
C3_Witness ==
    /\ call.fn = "window_level_image"
    /\ call.ww = 100 /\ call.wl = 50
    /\ call.img = <<<<50, 150>>>>
    /\ result.value = <<<<127, 255>>>>

\* the k-th smallest intensity of the volume, by counting
OrderStatistic(k) ==
    LET flat == ravel(volume)
        Below(v) == Cardinality({i \in 1..Len(flat) : flat[i] < v})
        UpTo(v) == Cardinality({i \in 1..Len(flat) : flat[i] <= v})
    IN  CHOOSE v \in {flat[i] : i \in 1..Len(flat)} : Below(v) < k /\ k <= UpTo(v)

\* 100 times the q-th percentile, interpolated between ranked samples
RankedPercentile100(q) ==
    LET pos == q * (Z_dim * Y_dim * X_dim - 1)
        i == pos \div 100
        g == pos % 100
    IN  IF g = 0 THEN 100 * OrderStatistic(i + 1)
        ELSE (100 - g) * OrderStatistic(i + 1) + g * OrderStatistic(i + 2)

\* C10: compute_default_window returns width = max(p95 - p5, 1.0) and
\* level = (p95 + p5) / 2, so width >= 1; on a volume of one intensity c
\* it returns width 1.0 and level c.
C10_DefaultWindow ==
    call.fn = "compute_default_window" =>
        LET p5 == RankedPercentile100(5)
            p95 == RankedPercentile100(95)
            flat == ravel(volume)
        IN  /\ result.value.ww100 = (IF p95 - p5 >= 100 THEN p95 - p5 ELSE 100)
            /\ result.value.wl200 = p95 + p5
            /\ result.value.ww100 >= 100
            /\ \A c \in {flat[1]} :
                 (\A k \in 1..Len(flat) : flat[k] = c) =>
                    /\ result.value.ww100 = 100
                    /\ result.value.wl200 = 200 * c

\* a volume of several voxels of one intensity
C10_Witness ==
    /\ call.fn = "compute_default_window"
    /\ Z_dim * Y_dim * X_dim >= 2
    /\ \A z \in 1..Z_dim, y \in 1..Y_dim, x \in 1..X_dim : volume[z][y][x] = -1000
    /\ result.value = [ww100 |-> 100, wl200 |-> -200000]

\* ------------------------------------------------- claims on the loading
Decodable == {i \in 1..Len(files) : files[i].ok}

\* the ordering key of the record of file i
OrderingKey(i) ==
    IF files[i].InstanceNumber # <<>> THEN files[i].InstanceNumber[1]
    ELSE IF files[i].ImagePositionPatient # <<>> THEN files[i].ImagePositionPatient[1]
    ELSE 0

\* rank of file i among the decodable files: ascending key, input order
\* among equal keys
Rank(i) ==
    Cardinality({j \in Decodable : OrderingKey(j) < OrderingKey(i)})
    + Cardinality({j \in Decodable : OrderingKey(j) = OrderingKey(i) /\ j <= i})

SameShapes ==
    \A i \in Decodable, j \in Decodable :
        files[i].Rows = files[j].Rows /\ files[i].Columns = files[j].Columns

\* C4: for a non-empty collection of decodable records of one shape, in
\* any input order, the volume has one slice per decodable record and
\* slice z holds the record of rank z in ascending orderingKey order,
\* records of equal key in input order.
C4_SortedAssembly ==
    (pc # "start" /\ Decodable # {} /\ SameShapes) =>
        /\ pc = "loaded"
        /\ Len(volume) = Cardinality(Decodable)
        /\ Len(datasets) = Cardinality(Decodable)
        /\ \A i \in Decodable :
              /\ datasets[Rank(i)] = files[i]
              /\ volume[Rank(i)] = rescaled(files[i])

\* two records of equal key and a folder listed against the key order
C4_Witness ==
    /\ pc = "loaded"
    /\ SameShapes
    /\ Cardinality(Decodable) >= 2
    /\ \E i \in Decodable, j \in Decodable :
          /\ i < j
          /\ OrderingKey(i) > OrderingKey(j) \/ OrderingKey(i) = OrderingKey(j)
          /\ datasets[Rank(i)] = files[i]

\* the record the canonical rows/cols are taken from
FirstSorted == CHOOSE i \in Decodable : Rank(i) = 1

ShapeMismatch ==
    /\ Decodable # {}
    /\ \E i \in Decodable :
          \/ files[i].Rows # files[FirstSorted].Rows
          \/ files[i].Columns # files[FirstSorted].Columns

\* C5: when a record's rows/cols differ from those of the first sorted
\* record, the assembly fails, the failure is reported and no volume is
\* produced.
C5_MismatchFails ==
    (pc # "start" /\ ShapeMismatch) =>
        /\ pc = "failed"
        /\ popup = ValueError
        /\ volume = <<>>

\* C9: a record with both a slope s and an intercept i has every raw
\* pixel v stored as v*s + i; a record missing either has v stored as is.
C9_Rescale ==
    pc = "loaded" =>
        \A i \in Decodable :
            \A r \in 1..files[i].Rows, c \in 1..files[i].Columns :
                LET v == files[i].pixel_array[r][c]
                    stored == volume[Rank(i)][r][c]
                IN  IF files[i].RescaleSlope # <<>> /\ files[i].RescaleIntercept # <<>>
                    THEN stored = v * files[i].RescaleSlope[1]
                                    + files[i].RescaleIntercept[1]
                    ELSE stored = v

\* one record with slope 2 and intercept -1000, one with the slope only
C9_Witness ==
    /\ pc = "loaded"
    /\ \E i \in Decodable, j \in Decodable :
          /\ files[i].RescaleSlope = <<2>> /\ files[i].RescaleIntercept = <<-1000>>
          /\ files[j].RescaleSlope = <<2>> /\ files[j].RescaleIntercept = <<>>
          /\ volume[Rank(i)][1][1] = 2 * files[i].pixel_array[1][1] - 1000
          /\ volume[Rank(j)][1][1] = files[j].pixel_array[1][1]

\* C6: when no record can be decoded (no files, or none decodes) the load
\* is fatal: no volume, the error shown to the user, the event loop never
\* entered; when at least one file decodes, the files that do not are
\* skipped and the load goes on with the decoded records only.
C6_FatalLoad ==
    /\ (pc # "start" /\ Decodable = {}) =>
          /\ pc = "failed"
          /\ volume = <<>>
          /\ datasets = <<>>
          /\ popup \in {FileNotFoundError, RuntimeError}
          /\ shown = NoShown
    /\ pc \in {"loaded", "running", "closed"} =>
          /\ Decodable # {}
          /\ popup = ""
          /\ Len(datasets) = Cardinality(Decodable)
          /\ Len(volume) = Cardinality(Decodable)
          /\ \A k \in 1..Len(datasets) : datasets[k].ok
    /\ (pc = "failed" /\ Decodable # {}) => popup = ValueError
    /\ (pc # "start" /\ Decodable # {} /\ SameShapes) => pc # "failed"

\* a folder of unreadable files only
C6_Witness ==
    /\ pc = "failed"
    /\ files # <<>>
    /\ Decodable = {}
    /\ popup = RuntimeError

\* C7: in the event loop the displayed state has plane Sagittal or
\* Coronal, axial index in [0, Z-1], reform index in [0, limit(plane)]
\* with limit(Sagittal) = X-1 and limit(Coronal) = Y-1 for the plane
\* shown, and window width >= 1; the reform slider holds the index shown.
C7_SessionRanges ==
    pc = "running" =>
        /\ shown.plane \in {"Sagittal", "Coronal"}
        /\ shown.plane = widgets.PLANE
        /\ shown.axial_idx \in 0..(Z_dim - 1)
        /\ shown.reform_idx \in
              0..(IF shown.plane = "Sagittal" THEN X_dim - 1 ELSE Y_dim - 1)
        /\ shown.reform_limit =
              (IF shown.plane = "Sagittal" THEN X_dim - 1 ELSE Y_dim - 1)
        /\ widgets.REFORM_SLICE = 2 * shown.reform_idx
        /\ shown.ww >= 1

\* a wide volume (X > Y) shown in the Coronal plane, whose limit is the
\* smaller one, with the axial slider left outside its range
C7_Witness ==
    /\ pc = "running"
    /\ X_dim > Y_dim
    /\ shown.plane = "Coronal"
    /\ shown.reform_idx = Y_dim - 1
    /\ widgets.AXIAL_SLICE > 2 * (Z_dim - 1)
    /\ shown.axial_idx = Z_dim - 1

VolumeKept ==
    pc \in {"loaded", "running"} =>
        /\ volume' = volume
        /\ datasets' = datasets
        /\ files' = files
        /\ (pc = "running" => defaults' = defaults)

\* C8: once the volume is assembled, no step of the session changes its
\* elements or its shape (nor the datasets and the defaults derived from
\* it); only the plane, the indices and the window change.
C8_VolumeImmutable == [][VolumeKept]_vars

\* a window of width 1 applied to a volume with intensities on both sides
\* of it
C8_Witness ==
    /\ pc = "running"
    /\ shown.ww = 1
    /\ \E r \in 1..Len(shown.axial_img), c \in 1..Len(shown.axial_img[1]) :
          shown.axial_img[r][c] = 0
    /\ \E r \in 1..Len(shown.axial_img), c \in 1..Len(shown.axial_img[1]) :
          shown.axial_img[r][c] = 255

Abs(n) == IF n < 0 THEN -n ELSE n

\* x is the integer nearest to n / d (d > 0), the even one of two
NearestTo(x, n, d) ==
    /\ 2 * Abs(x * d - n) <= d
    /\ 2 * Abs(x * d - n) = d => x % 2 = 0

\* C11: for limit <= 0 update_overlay_coords returns the centred line
\* (x = width // 2 from y = 0 to height-1 for Sagittal, y = height // 2
\* from x = 0 to width-1 for Coronal); for limit > 0 the vertical line at
\* x = round(reformIndex / limit * (width-1)) for Sagittal and the
\* horizontal line at y = round(reformIndex / limit * (height-1)) for
\* Coronal; for reformIndex in [0, limit] the line lies inside the image.
C11_OverlayLine ==
    call.fn = "update_overlay_coords" =>
        LET height == call.shape[1]
            width == call.shape[2]
            x1 == result.value[1]
            y1 == result.value[2]
            x2 == result.value[3]
            y2 == result.value[4]
        IN  /\ result.raised = None
            /\ (call.limit <= 0 /\ call.plane = "Sagittal") =>
                  /\ x1 = width \div 2 /\ x2 = x1
                  /\ y1 = 0 /\ y2 = height - 1
            /\ (call.limit <= 0 /\ call.plane = "Coronal") =>
                  /\ y1 = height \div 2 /\ y2 = y1
                  /\ x1 = 0 /\ x2 = width - 1
            /\ (call.limit > 0 /\ call.plane = "Sagittal") =>
                  /\ NearestTo(x1, call.index * (width - 1), call.limit)
                  /\ x2 = x1
                  /\ y1 = 0 /\ y2 = height - 1
            /\ (call.limit > 0 /\ call.plane = "Coronal") =>
                  /\ NearestTo(y1, call.index * (height - 1), call.limit)
                  /\ y2 = y1
                  /\ x1 = 0 /\ x2 = width - 1
            /\ (call.limit <= 0 \/ call.index \in 0..call.limit) =>
                  /\ x1 \in 0..(width - 1) /\ x2 \in 0..(width - 1)
                  /\ y1 \in 0..(height - 1) /\ y2 \in 0..(height - 1)

\* the last Sagittal position of a limit > 0 on an image several pixels wide
C11_Witness ==
    /\ call.fn = "update_overlay_coords"
    /\ call.plane = "Sagittal"
    /\ call.limit > 0
    /\ call.index = call.limit
    /\ call.shape[2] >= 2
    /\ result.value[1] = call.shape[2] - 1

ValidExtractCall ==
    /\ call.fn = "extract_plane"
    /\ call.index \in 0..ExtractLimit(call.plane)

IsGradient ==
    \A z \in 1..Z_dim, y \in 1..Y_dim, x \in 1..X_dim :
        volume[z][y][x] = (z - 1) * 100 + (y - 1) * 10 + (x - 1)

\* C12: the rotate-then-flip of extract_plane is a transposition of the
\* cut: with 0-based r, c, the Sagittal result at [r][c] is
\* volume[c][r][x], the Coronal result at [r][c] is volume[c][y][r] and the
\* Axial result at [r][c] is volume[index][r][c]; for
\* volume[z, y, x] = z*100 + y*10 + x the Sagittal result at [r][c] is
\* c*100 + r*10 + x.
C12_Transposition ==
    ValidExtractCall =>
        LET out == result.value
            k == call.index + 1
        IN  /\ result.raised = None
            /\ call.plane = "Sagittal" =>
                  /\ Len(out) = Y_dim
                  /\ \A r \in 1..Y_dim :
                        /\ Len(out[r]) = Z_dim
                        /\ \A c \in 1..Z_dim :
                              /\ out[r][c] = volume[c][r][k]
                              /\ IsGradient =>
                                    out[r][c] = (c - 1) * 100 + (r - 1) * 10 + call.index
            /\ call.plane = "Coronal" =>
                  /\ Len(out) = X_dim
                  /\ \A r \in 1..X_dim :
                        /\ Len(out[r]) = Z_dim
                        /\ \A c \in 1..Z_dim : out[r][c] = volume[c][k][r]
            /\ call.plane = "Axial" =>
                  /\ Len(out) = Y_dim
                  /\ \A r \in 1..Y_dim :
                        /\ Len(out[r]) = X_dim
                        /\ \A c \in 1..X_dim : out[r][c] = volume[k][r][c]

\* a Sagittal cut of the gradient volume with several slices and rows:
\* row 1, column 0 of the result is volume[0][1][x] = 10 + x
C12_Witness ==
    /\ ValidExtractCall
    /\ call.plane = "Sagittal"
    /\ IsGradient
    /\ Z_dim >= 2 /\ Y_dim >= 2
    /\ result.value[2][1] = 10 + call.index
    /\ result.value[1][2] = 100 + call.index

====
